---- MODULE Spec2Model ----
(***************************************************************************)
(* Room / game state machine of server.js: the room registry, the roster   *)
(* and host assignment, the round phase machine, scoring, the deferred     *)
(* cleanup of empty rooms and the asynchronous answer lookup of            *)
(* game:setPrompt.                                                         *)
(*                                                                         *)
(* JavaScript values are represented as follows.                           *)
(*   string            sequence of one-character strings, '' is << >>      *)
(*   socket id         a string of Sockets; null is Null                   *)
(*   number | null     << n >> for the number n, << >> for null            *)
(*   players, guesses  sequence of [key, value] records in insertion order *)
(*   rooms, scores     function whose DOMAIN is the set of keys (the only  *)
(*                     reader of the scores' order sorts the entries)      *)
(*   lastWinners       the array of socket ids, in the guesses' order      *)
(*   plain object      function from its keys to their values              *)
(***************************************************************************)
EXTENDS Integers, Sequences, FiniteSets, Bags, TLC

\* ------------------------------------------------------------------ bounds
\* Largest cumulative score a reveal may produce in the model.
MaxScore == 1
\* Largest number of answer lookups in flight at once in the model.
MaxPending == 1
\* Largest number of connections with a guess in one round in the model.
MaxGuesses == 2
\* Lookups in flight at once in the two-socket runs.
MaxPendingRace == 2

\* Connections the model follows (socket.id values).
SocketIds == <<"s1", "s2", "s3">>
Sockets == {SocketIds[i] : i \in 1..Len(SocketIds)}
\* The connections that act in the two-socket runs.
RaceSockets == {SocketIds[1], SocketIds[2]}
\* Room codes genCode may draw in the model.
Codes == {<<"A", "B", "C", "D">>}
\* Payloads a client may send with room:join: a good one without and with
\* the host request, one whose code names no room, one with a blank name.
JoinInputs ==
    {[code |-> <<"a", "b", "c", "d">>, name |-> <<" ", "a", " ">>, host |-> FALSE],
     [code |-> <<"a", "b", "c", "d">>, name |-> <<" ", "a", " ">>, host |-> TRUE],
     [code |-> <<"Q", "Q", "Q", "Q">>, name |-> <<" ", "a", " ">>, host |-> TRUE],
     [code |-> <<"a", "b", "c", "d">>, name |-> <<" ", " ">>, host |-> TRUE]}
\* Texts a client may send with game:setPrompt.
PromptTexts == {<<" ">>, <<" ", "q", " ">>}
\* Raw values a client may send with game:guess.
GuessInputs == {[kind |-> "number", n |-> 1], [kind |-> "string", n |-> 3],
                [kind |-> "undefined", n |-> 0]}
\* Numbers the answer lookup may produce.
OracleValues == {2, 3}

\* ------------------------------------------------------------ JS helpers
Null == "null"
NullNumber == << >>
Num(n) == << n >>
EmptyMap == [k \in {} |-> 0]
MapPut(f, k, v) == [x \in (DOMAIN f) \cup {k} |-> IF x = k THEN v ELSE f[x]]
MapRemove(f, k) == [x \in (DOMAIN f) \ {k} |-> f[x]]

Abs(x) == IF x < 0 THEN -x ELSE x
SetMin(S) == CHOOSE m \in S : \A x \in S : m <= x
\* The values an array holds.
Elems(seq) == {seq[i] : i \in 1..Len(seq)}

\* Ordered Map (sequence of [key, value] records).
Keys(m) == {m[i].key : i \in 1..Len(m)}
Has(m, k) == k \in Keys(m)
Get(m, k) == (CHOOSE e \in {m[i] : i \in 1..Len(m)} : e.key = k).value
\* Map.prototype.set: an existing key keeps its position.
Set(m, k, v) ==
    IF Has(m, k)
    THEN [i \in 1..Len(m) |-> IF m[i].key = k THEN [key |-> k, value |-> v] ELSE m[i]]
    ELSE Append(m, [key |-> k, value |-> v])
RECURSIVE Delete(_, _)
Delete(m, k) ==
    IF m = << >> THEN << >>
    ELSE IF Head(m).key = k THEN Delete(Tail(m), k)
    ELSE <<Head(m)>> \o Delete(Tail(m), k)

\* String.prototype.trim on a sequence of characters.
RECURSIVE TrimLeft(_)
TrimLeft(s) == IF s # << >> /\ Head(s) = " " THEN TrimLeft(Tail(s)) ELSE s
RECURSIVE TrimRight(_)
TrimRight(s) ==
    IF s # << >> /\ s[Len(s)] = " " THEN TrimRight(SubSeq(s, 1, Len(s) - 1)) ELSE s
Trim(s) == TrimRight(TrimLeft(s))
\* String.prototype.slice(0, n)
Slice0(s, n) == SubSeq(s, 1, IF Len(s) < n THEN Len(s) ELSE n)
\* String.prototype.toUpperCase on the letters the model sends.
UpperChar(c) ==
    CASE c = "a" -> "A" [] c = "b" -> "B" [] c = "c" -> "C" [] c = "d" -> "D"
      [] OTHER -> c
ToUpperCase(s) == [i \in 1..Len(s) |-> UpperChar(s[i])]

\* Number(value) with the isFinite test of game:guess: << n >> when the
\* conversion is a finite number, << >> when it is NaN. A raw value is a
\* number n, a string whose text denotes the number n, or undefined.
ToFiniteNumber(raw) ==
    CASE raw.kind = "number" -> Num(raw.n)
      [] raw.kind = "string" -> Num(raw.n)
      [] OTHER -> NullNumber

\* ------------------------------------------------------------------ state
VARIABLES
    rooms,     \* the registry: code -> room, DOMAIN rooms = the codes in use
    socket,    \* per connection: connected, and socket.data.code
    pending    \* answer lookups in flight (suspended game:setPrompt handlers)

vars == <<rooms, socket, pending>>

NoCode == << >>
PromptLimit == 300

newGameState ==
    [phase |-> "idle", currentTurnId |-> Null, isAcceptingPrompt |-> FALSE,
     prompt |-> << >>, targetValue |-> NullNumber, answerText |-> << >>,
     guesses |-> << >>, revealed |-> FALSE, lastWinners |-> << >>]

newRoom ==
    [players |-> << >>, hostId |-> Null, game |-> newGameState, scores |-> EmptyMap,
     cleanupTimer |-> "none"]

Init ==
    /\ rooms = EmptyMap
    /\ socket = [s \in Sockets |-> [connected |-> TRUE, code |-> NoCode]]
    /\ pending = EmptyBag

\* ------------------------------------------------------------- registry
Room(code) == rooms[code]
PutRoom(code, r) == [rooms EXCEPT ![code] = r]
PutGame(code, g) == [rooms EXCEPT ![code].game = g]

\* app.post('/api/rooms'): genCode is redrawn until the code is unused.
CreateRoom ==
    /\ \E code \in Codes \ DOMAIN rooms : rooms' = MapPut(rooms, code, newRoom)
    /\ UNCHANGED <<socket, pending>>

\* The lookups whose captured game object is the room's current one lose it
\* when the room gets a new game object (or the room itself goes away).
Detached(call, code) == IF call.code = code THEN [call EXCEPT !.live = FALSE] ELSE call
Detach(code) ==
    LET calls == {Detached(c, code) : c \in BagToSet(pending)}
    IN [d \in calls |->
          (IF BagIn(d, pending) THEN CopiesIn(d, pending) ELSE 0)
          + (IF d.code = code /\ BagIn([d EXCEPT !.live = TRUE], pending)
             THEN CopiesIn([d EXCEPT !.live = TRUE], pending) ELSE 0)]

\* scheduleRoomCleanup: clearTimeout of the old handle, then a new timer.
scheduleRoomCleanup(room) == [room EXCEPT !.cleanupTimer = "armed"]

\* The timer callback: the room is deleted only if it is still empty.
cleanupDeletes(room) == room.players = << >>

CleanupTimerFires(code) ==
    /\ code \in DOMAIN rooms
    /\ Room(code).cleanupTimer = "armed"
    /\ IF cleanupDeletes(Room(code))
       THEN /\ rooms' = MapRemove(rooms, code)
            /\ pending' = Detach(code)
       ELSE /\ rooms' = PutRoom(code, [Room(code) EXCEPT !.cleanupTimer = "fired"])
            /\ UNCHANGED pending
    /\ UNCHANGED socket

\* ----------------------------------------------------------- projections
roomPlayersArray(room) == [i \in 1..Len(room.players) |-> room.players[i].value]

PlayerName(room, sid, fallback) ==
    IF Has(room.players, sid) /\ Get(room.players, sid).name # << >>
    THEN Get(room.players, sid).name
    ELSE fallback

\* Object.fromEntries: a key that occurs again keeps the later value.
RECURSIVE fromEntries(_)
fromEntries(entries) ==
    IF entries = << >> THEN EmptyMap
    ELSE LET last == entries[Len(entries)]
         IN MapPut(fromEntries(SubSeq(entries, 1, Len(entries) - 1)), last[1], last[2])

Player == <<"P", "l", "a", "y", "e", "r">>
LeftName == <<"(", "l", "e", "f", "t", ")">>

\* String.prototype.localeCompare on the characters names are made of here:
\* white space sorts before punctuation, punctuation before letters.
Collation == <<" ", "(", ")", "a", "e", "f", "l", "P", "q", "r", "t", "y">>
CharRank(ch) == CHOOSE i \in 1..Len(Collation) : Collation[i] = ch
RECURSIVE localeCompare(_, _)
localeCompare(a, b) ==
    IF a = << >> /\ b = << >> THEN 0
    ELSE IF a = << >> THEN -1
    ELSE IF b = << >> THEN 1
    ELSE IF CharRank(Head(a)) < CharRank(Head(b)) THEN -1
    ELSE IF CharRank(Head(a)) > CharRank(Head(b)) THEN 1
    ELSE localeCompare(Tail(a), Tail(b))

\* b.score - a.score || a.name.localeCompare(b.name), as "a sorts before b"
LeaderBefore(a, b) ==
    \/ a.score > b.score
    \/ a.score = b.score /\ localeCompare(a.name, b.name) < 0
\* Array.prototype.sort (stable) under LeaderBefore
RECURSIVE LeaderInsert(_, _)
LeaderInsert(sorted, x) ==
    IF sorted = << >> THEN <<x>>
    ELSE IF LeaderBefore(x, Head(sorted)) THEN <<x>> \o sorted
    ELSE <<Head(sorted)>> \o LeaderInsert(Tail(sorted), x)
RECURSIVE LeaderSort(_)
LeaderSort(arr) ==
    IF arr = << >> THEN << >>
    ELSE LeaderInsert(LeaderSort(SubSeq(arr, 1, Len(arr) - 1)), arr[Len(arr)])

\* leaderboardArray: one {name, score} per scores entry, sorted.  Entries
\* the comparator cannot tell apart are equal records, so the sorted array
\* does not depend on the order in which the scores Map yields them.
ScoreHolders(scores) == SelectSeq(SocketIds, LAMBDA sid : sid \in DOMAIN scores)
leaderboardArray(room) ==
    LET holders == ScoreHolders(room.scores)
    IN LeaderSort([i \in 1..Len(holders) |->
            [name |-> PlayerName(room, holders[i], LeftName),
             score |-> room.scores[holders[i]]]])

\* payload of 'room:update'
broadcastRoom(code) ==
    LET room == Room(code)
        arr == roomPlayersArray(room)
    IN [code |-> code,
        players |-> [i \in 1..Len(arr) |->
            [id |-> arr[i].id, name |-> arr[i].name, isHost |-> arr[i].id = room.hostId]]]

AnswerLocked == <<"Answer locked. Guess now!">>
NoAnswerFound == <<"No numeric answer found.">>

\* Variant: the payload carries the stored target and answer at all times.
emitGameStateUnhidden(code) ==
    LET g == Room(code).game
    IN [phase |-> g.phase, targetValue |-> g.targetValue, answerText |-> g.answerText,
        revealed |-> g.revealed]
\* payload of 'game:state'
emitGameState(code) ==
    LET room == Room(code)
        g == room.game
        arr == roomPlayersArray(room)
    IN [players |-> [i \in 1..Len(arr) |->
            [id |-> arr[i].id, name |-> arr[i].name, isHost |-> arr[i].id = room.hostId]],
        phase |-> g.phase,
        currentTurnId |-> g.currentTurnId,
        isAcceptingPrompt |-> g.isAcceptingPrompt,
        prompt |-> g.prompt,
        targetValue |-> IF g.revealed THEN g.targetValue ELSE NullNumber,
        answerText |-> IF g.revealed THEN g.answerText
                       ELSE IF g.phase = "guessing" THEN AnswerLocked ELSE << >>,
        guessesByName |-> fromEntries(
            [i \in 1..Len(g.guesses) |->
                <<PlayerName(room, g.guesses[i].key, Player), g.guesses[i].value>>]),
        revealed |-> g.revealed,
        leaderboard |-> leaderboardArray(room),
        lastWinners |-> [i \in 1..Len(g.lastWinners) |->
                            PlayerName(room, g.lastWinners[i], Player)]]

\* Math.random picks any index of the roster.
pickRandomPlayerId(room) ==
    IF Len(room.players) = 0 THEN {Null} ELSE Keys(room.players)

\* ------------------------------------------------------------- connections
\* Socket ids are handed out by the transport. Connections that have not
\* joined a room yet are interchangeable, so the model lets them act in the
\* order of their ids; one that goes away before joining leaves no trace, and
\* its id then stands for the next new connection.
Fresh(s) == socket[s].connected /\ socket[s].code = NoCode
Rank(s) == CHOOSE i \in 1..Len(SocketIds) : SocketIds[i] = s
Active(s) ==
    /\ socket[s].connected
    /\ Fresh(s) => \A t \in Sockets : Fresh(t) => Rank(s) <= Rank(t)

\* ------------------------------------------------------------- room:join
NoAck == [ok |-> FALSE, error |-> "(no acknowledgement)"]
Fail(msg) == [ok |-> FALSE, error |-> msg]
Ok == [ok |-> TRUE, error |-> ""]

JoinCode(codeIn) == ToUpperCase(codeIn)

\* Variant: the host is taken only on request.
takesHostOnRequestOnly(room, host) == host
\* Variant: the host request is ignored, the host is taken only when vacant.
takesHostWhenVacant(room, host) == room.hostId = Null
\* !room.hostId || host
takesHost(room, host) == room.hostId = Null \/ host

\* Variant: a join leaves the timer as it is.
cancelCleanupForgotten(timer) == timer
\* if (room.cleanupTimer) { clearTimeout(...); room.cleanupTimer = null; }
cancelCleanup(timer) == "none"

JoinedRoom(room, s, nameIn, host) ==
    [room EXCEPT
        !.players = Set(room.players, s, [id |-> s, name |-> Trim(nameIn)]),
        !.cleanupTimer = cancelCleanup(room.cleanupTimer),
        !.hostId = IF takesHost(room, host) THEN s ELSE room.hostId]

RoomJoinAck(s, codeIn, nameIn, host) ==
    IF JoinCode(codeIn) \notin DOMAIN rooms THEN Fail("Room not found")
    ELSE IF Trim(nameIn) = << >> THEN Fail("Name required")
    ELSE [ok |-> TRUE, error |-> "", code |-> JoinCode(codeIn),
          you |-> [id |-> s, name |-> Trim(nameIn),
                   isHost |-> s = JoinedRoom(Room(JoinCode(codeIn)), s, nameIn, host).hostId]]

RoomJoin(s, codeIn, nameIn, host) ==
    /\ Active(s)
    /\ IF RoomJoinAck(s, codeIn, nameIn, host).ok
       THEN /\ socket' = [socket EXCEPT ![s].code = JoinCode(codeIn)]
            /\ rooms' = PutRoom(JoinCode(codeIn),
                                JoinedRoom(Room(JoinCode(codeIn)), s, nameIn, host))
       ELSE UNCHANGED <<rooms, socket>>
    /\ UNCHANGED pending

\* ------------------------------------------------------ host-only events
\* const code = socket.data.code; const room = rooms.get(code); if (!room) return;
HasRoom(s) == socket[s].code \in DOMAIN rooms
RoomOf(s) == Room(socket[s].code)

\* Variant: any member of the roster passes the host check.
hostOnlyAnyMember(room, s) == Has(room.players, s)
\* if (room.hostId !== socket.id) return;
hostOnly(room, s) == room.hostId = s

\* Variant: returning to the lobby also starts a new scoreboard.
RoomStartClearsScores(s) ==
    /\ Active(s)
    /\ IF HasRoom(s) /\ hostOnly(RoomOf(s), s)
       THEN /\ rooms' = PutRoom(socket[s].code,
                    [RoomOf(s) EXCEPT !.game = newGameState, !.scores = EmptyMap])
            /\ pending' = Detach(socket[s].code)
       ELSE UNCHANGED <<rooms, pending>>
    /\ UNCHANGED socket

\* 'room:start' takes no acknowledgement callback, nor do the other host events.
HostEventAck(s) == NoAck

RoomStart(s) ==
    /\ Active(s)
    /\ IF HasRoom(s) /\ hostOnly(RoomOf(s), s)
       THEN /\ rooms' = PutGame(socket[s].code, newGameState)
            /\ pending' = Detach(socket[s].code)
       ELSE UNCHANGED <<rooms, pending>>
    /\ UNCHANGED socket

\* Variant: the round reset keeps the winners of the round before.
ChoosingStateKeepsWinners(g, chooser) ==
    [g EXCEPT !.phase = "choosing", !.currentTurnId = chooser,
              !.isAcceptingPrompt = (chooser # Null), !.prompt = << >>,
              !.targetValue = NullNumber, !.answerText = << >>, !.guesses = << >>,
              !.revealed = FALSE]
\* The round reset shared by game:startRound and game:nextTurn.
ChoosingState(g, chooser) ==
    [g EXCEPT !.phase = "choosing", !.currentTurnId = chooser,
              !.isAcceptingPrompt = (chooser # Null), !.prompt = << >>,
              !.targetValue = NullNumber, !.answerText = << >>, !.guesses = << >>,
              !.revealed = FALSE, !.lastWinners = << >>]

GameStartRound(s) ==
    /\ Active(s)
    /\ IF HasRoom(s) /\ hostOnly(RoomOf(s), s)
       THEN \E chooser \in pickRandomPlayerId(RoomOf(s)) :
                rooms' = PutGame(socket[s].code, ChoosingState(RoomOf(s).game, chooser))
       ELSE UNCHANGED rooms
    /\ UNCHANGED <<socket, pending>>

GameNextTurn(s) ==
    /\ Active(s)
    /\ IF HasRoom(s) /\ hostOnly(RoomOf(s), s)
       THEN \E chooser \in pickRandomPlayerId(RoomOf(s)) :
                rooms' = PutGame(socket[s].code, ChoosingState(RoomOf(s).game, chooser))
       ELSE UNCHANGED rooms
    /\ UNCHANGED <<socket, pending>>

\* --------------------------------------------------------- game:setPrompt
\* Variant: only the chooser is checked, not the accepting flag.
notYourTurnChooserOnly(g, s) == g.currentTurnId # s
\* if (!g.isAcceptingPrompt || g.currentTurnId !== socket.id) -> 'Not your turn'
notYourTurn(g, s) == ~g.isAcceptingPrompt \/ g.currentTurnId # s

\* String(text || '').trim().slice(0, 300)
PromptOf(text) == Slice0(Trim(text), PromptLimit)

GameSetPromptAck(s, text) ==
    IF ~HasRoom(s) THEN Fail("Room missing")
    ELSE IF notYourTurn(RoomOf(s).game, s) THEN Fail("Not your turn")
    ELSE IF PromptOf(text) = << >> THEN Fail("Prompt is empty")
    ELSE NoAck  \* the acknowledgement waits for the answer lookup

\* Variant: the prompt is stored and looked up, but further prompts stay
\* welcome.
GameSetPromptStaysOpen(s, text, limit) ==
    /\ Active(s)
    /\ IF GameSetPromptAck(s, text) = NoAck
       THEN /\ BagCardinality(pending) < limit
            /\ rooms' = PutGame(socket[s].code,
                    [RoomOf(s).game EXCEPT !.prompt = PromptOf(text)])
            /\ pending' = pending (+) SetToBag(
                    {[sid |-> s, code |-> socket[s].code, prompt |-> PromptOf(text),
                      live |-> TRUE]})
       ELSE UNCHANGED <<rooms, pending>>
    /\ UNCHANGED socket
\* The handler up to its await: the prompt is stored, further prompts are
\* refused and the lookup is in flight, holding the game object g.
GameSetPromptWithin(s, text, limit) ==
    /\ Active(s)
    /\ IF GameSetPromptAck(s, text) = NoAck
       THEN /\ BagCardinality(pending) < limit
            /\ rooms' = PutGame(socket[s].code,
                    [RoomOf(s).game EXCEPT !.prompt = PromptOf(text),
                                           !.isAcceptingPrompt = FALSE])
            /\ pending' = pending (+) SetToBag(
                    {[sid |-> s, code |-> socket[s].code, prompt |-> PromptOf(text),
                      live |-> TRUE]})
       ELSE UNCHANGED <<rooms, pending>>
    /\ UNCHANGED socket

GameSetPrompt(s, text) == GameSetPromptWithin(s, text, MaxPending)

\* Outcomes of fetchNumericAnswer: a finite value with a text (possibly
\* empty), null, or an exception.
OracleText(v) == IF v = 2 THEN << >> ELSE <<"It is ", ToString(v), ".">>
fetchNumericAnswer ==
    {[kind |-> "value", value |-> v, text |-> OracleText(v)] : v \in OracleValues}
        \cup {[kind |-> "null", value |-> 0, text |-> << >>],
              [kind |-> "throw", value |-> 0, text |-> << >>]}

\* result.text || `Answer: ${result.value}`
AnswerTextOf(result) ==
    IF result.text # << >> THEN result.text ELSE <<"Answer: ", ToString(result.value)>>

\* What the rest of the handler writes into g once the lookup has ended.
AfterAnswer(g, result) ==
    CASE result.kind = "null" ->
            [g EXCEPT !.phase = "choosing", !.answerText = NoAnswerFound,
                      !.targetValue = NullNumber]
      [] result.kind = "throw" ->
            [g EXCEPT !.phase = "choosing"]
      [] OTHER ->
            [g EXCEPT !.targetValue = Num(result.value),
                      !.answerText = AnswerTextOf(result),
                      !.phase = "guessing", !.guesses = << >>, !.revealed = FALSE]

AnswerAck(result) ==
    CASE result.kind = "null" ->
            Fail("No numeric answer found. Try rephrasing (e.g., \"career points per game\").")
      [] result.kind = "throw" -> Fail("Error fetching answer.")
      [] OTHER -> Ok

\* The handler after its await, for the lookup `call` in flight.
AnswerArrives(call, result) ==
    /\ BagIn(call, pending)
    /\ result \in fetchNumericAnswer
    /\ IF call.live
       THEN rooms' = PutGame(call.code, AfterAnswer(Room(call.code).game, result))
       ELSE UNCHANGED rooms
    /\ pending' = pending (-) SetToBag({call})
    /\ UNCHANGED socket

\* ------------------------------------------------------------- game:guess
\* Variant: guesses are also taken once the round is revealed.
acceptingGuessesLate(g) == g.phase \in {"guessing", "revealed"}
\* if (g.phase !== 'guessing') -> 'Not accepting guesses'
acceptingGuesses(g) == g.phase = "guessing"

GameGuessAck(s, raw) ==
    IF ~HasRoom(s) THEN Fail("Room missing")
    ELSE IF ~acceptingGuesses(RoomOf(s).game) THEN Fail("Not accepting guesses")
    ELSE IF ToFiniteNumber(raw) = NullNumber THEN Fail("Guess must be a number")
    ELSE Ok

GameGuess(s, raw) ==
    /\ Active(s)
    /\ IF GameGuessAck(s, raw).ok
       THEN /\ Has(RoomOf(s).game.guesses, s) \/ Len(RoomOf(s).game.guesses) < MaxGuesses
            /\ rooms' = PutGame(socket[s].code,
                    [RoomOf(s).game EXCEPT
                        !.guesses = Set(RoomOf(s).game.guesses, s, ToFiniteNumber(raw)[1])])
       ELSE UNCHANGED rooms
    /\ UNCHANGED <<socket, pending>>

\* ---------------------------------------------------- game:revealAndScore
\* Math.abs(guess - g.targetValue); a null target counts as 0.
ErrOf(guess, target) == Abs(guess - (IF target = NullNumber THEN 0 ELSE target[1]))

\* Variant: a tie is broken, one of the closest guessers wins.
closestOne(guesses, target) ==
    LET minErr == SetMin({ErrOf(guesses[i].value, target) : i \in 1..Len(guesses)})
        IsMin(e) == ErrOf(e.value, target) = minErr
    IN <<SelectSeq(guesses, IsMin)[1].key>>
\* minErr over all guesses, then the socket ids whose error is minErr, in
\* the order of g.guesses.entries()
closest(guesses, target) ==
    LET minErr == SetMin({ErrOf(guesses[i].value, target) : i \in 1..Len(guesses)})
        IsMin(e) == ErrOf(e.value, target) = minErr
        diffs == SelectSeq(guesses, IsMin)
    IN [i \in 1..Len(diffs) |-> diffs[i].key]

ScoreOf(scores, sid) == IF sid \in DOMAIN scores THEN scores[sid] ELSE 0

\* room.scores.set(sid, (room.scores.get(sid) || 0) + 1) for each winner
award(scores, winners) ==
    [sid \in (DOMAIN scores) \cup Elems(winners) |->
        IF sid \in Elems(winners) THEN ScoreOf(scores, sid) + 1 ELSE scores[sid]]

Revealed(room, winners) ==
    [room EXCEPT !.scores = award(room.scores, winners),
                 !.game.phase = "revealed", !.game.revealed = TRUE,
                 !.game.lastWinners = winners]

GameRevealAndScore(s) ==
    /\ Active(s)
    /\ IF HasRoom(s) /\ hostOnly(RoomOf(s), s) /\ RoomOf(s).game.phase = "guessing"
       THEN LET g == RoomOf(s).game
                winners == IF Len(g.guesses) = 0 THEN << >>
                           ELSE closest(g.guesses, g.targetValue)
            IN /\ \A w \in Elems(winners) : ScoreOf(RoomOf(s).scores, w) < MaxScore
               /\ rooms' = PutRoom(socket[s].code, Revealed(RoomOf(s), winners))
       ELSE UNCHANGED rooms
    /\ UNCHANGED <<socket, pending>>

\* ------------------------------------------------------------- disconnect
\* Variant: the most recent joiner takes over.
nextHostNewest(players) == IF players = << >> THEN Null ELSE players[Len(players)].key
\* const next = room.players.keys().next(); next.done ? null : next.value
nextHost(players) == IF players = << >> THEN Null ELSE players[1].key

\* Variant: a leaving chooser stays the chooser.
LeftKeepsTurn(room, s) ==
    LET players == Delete(room.players, s)
        r1 == [room EXCEPT
                 !.players = players,
                 !.hostId = IF room.hostId = s THEN nextHost(players) ELSE room.hostId]
    IN IF players = << >> THEN scheduleRoomCleanup(r1) ELSE r1
\* Variant: leaving also withdraws the leaver's guess.
LeftDropsGuess(room, s) ==
    LET players == Delete(room.players, s)
        g == [room.game EXCEPT !.guesses = Delete(room.game.guesses, s)]
        r1 == [room EXCEPT
                 !.players = players,
                 !.hostId = IF room.hostId = s THEN nextHost(players) ELSE room.hostId,
                 !.game = IF g.currentTurnId = s
                          THEN [g EXCEPT !.currentTurnId = Null, !.isAcceptingPrompt = FALSE]
                          ELSE g]
    IN IF players = << >> THEN scheduleRoomCleanup(r1) ELSE r1
\* The disconnect handler's writes to the room of the leaving socket.
Left(room, s) ==
    LET players == Delete(room.players, s)
        g == room.game
        r1 == [room EXCEPT
                 !.players = players,
                 !.hostId = IF room.hostId = s THEN nextHost(players) ELSE room.hostId,
                 !.game = IF g.currentTurnId = s
                          THEN [g EXCEPT !.currentTurnId = Null, !.isAcceptingPrompt = FALSE]
                          ELSE g]
    IN IF players = << >> THEN scheduleRoomCleanup(r1) ELSE r1

Disconnect(s) ==
    /\ Active(s)
    /\ IF socket[s].code = NoCode
       THEN UNCHANGED <<socket, rooms>>
       ELSE /\ socket' = [socket EXCEPT ![s].connected = FALSE]
            /\ IF HasRoom(s)
               THEN rooms' = PutRoom(socket[s].code, Left(RoomOf(s), s))
               ELSE UNCHANGED rooms
    /\ UNCHANGED pending

\* ------------------------------------------------------------------ system
Next ==
    \/ CreateRoom
    \/ \E code \in Codes : CleanupTimerFires(code)
    \/ \E s \in Sockets, in \in JoinInputs : RoomJoin(s, in.code, in.name, in.host)
    \/ \E s \in Sockets : RoomStart(s)
    \/ \E s \in Sockets : GameStartRound(s)
    \/ \E s \in Sockets : GameNextTurn(s)
    \/ \E s \in Sockets, text \in PromptTexts : GameSetPrompt(s, text)
    \/ \E call \in BagToSet(pending), result \in fetchNumericAnswer :
           AnswerArrives(call, result)
    \/ \E s \in Sockets, raw \in GuessInputs : GameGuess(s, raw)
    \/ \E s \in Sockets : GameRevealAndScore(s)
    \/ \E s \in Sockets : Disconnect(s)

Spec == Init /\ [][Next]_vars

\* The same server driven by two sockets only, with room for two lookups in
\* flight at once: the runs in which a second prompt is submitted while an
\* earlier lookup has not come back.
NextRace ==
    \/ CreateRoom
    \/ \E code \in Codes : CleanupTimerFires(code)
    \/ \E s \in RaceSockets, in \in JoinInputs : RoomJoin(s, in.code, in.name, in.host)
    \/ \E s \in RaceSockets : RoomStart(s)
    \/ \E s \in RaceSockets : GameStartRound(s)
    \/ \E s \in RaceSockets : GameNextTurn(s)
    \/ \E s \in RaceSockets, text \in PromptTexts :
           GameSetPromptWithin(s, text, MaxPendingRace)
    \/ \E call \in BagToSet(pending), result \in fetchNumericAnswer :
           AnswerArrives(call, result)
    \/ \E s \in RaceSockets, raw \in GuessInputs : GameGuess(s, raw)
    \/ \E s \in RaceSockets : GameRevealAndScore(s)
    \/ \E s \in RaceSockets : Disconnect(s)

SpecRace == Init /\ [][NextRace]_vars

\* ================================================================ claims
RoomCodes == DOMAIN rooms
Roster(c) == Keys(rooms[c].players)
Connected(s) == socket[s].connected
InRoom(s) == Connected(s) /\ HasRoom(s)

\* C1: in every reachable state of a room, hostId is null exactly when the
\* roster is empty, a non-null hostId is a roster member, and the roster
\* snapshot flags exactly one member as host (none iff the roster is empty).
HostFlags(c) ==
    {i \in 1..Len(broadcastRoom(c).players) : broadcastRoom(c).players[i].isHost}
C1_HostInRoster ==
    \A c \in RoomCodes :
        /\ (rooms[c].hostId = Null) <=> (Roster(c) = {})
        /\ rooms[c].hostId # Null => rooms[c].hostId \in Roster(c)
        /\ Cardinality(HostFlags(c)) = (IF Roster(c) = {} THEN 0 ELSE 1)

\* C1 witness: a room whose host is not its earliest member, after a member
\* has left and a round has been scored.
C1_Witness ==
    \E c \in RoomCodes :
        /\ Len(rooms[c].players) >= 2
        /\ rooms[c].hostId # rooms[c].players[1].key
        /\ \E s \in Sockets : ~Connected(s) /\ s \in DOMAIN rooms[c].scores

\* C2: a reveal by the host in phase guessing makes lastWinners the set of
\* connections whose guess is nearest the target (all ties), adds exactly 1
\* to each winner's score, leaves every other score alone and ends in phase
\* revealed with revealed = true; with no guess there is no winner and no
\* score changes.
Nearest(guesses, target) ==
    {sid \in Keys(guesses) :
        \A other \in Keys(guesses) :
            Abs(Get(guesses, sid) - target[1]) <= Abs(Get(guesses, other) - target[1])}
C2_RevealStep(s) ==
    LET before == RoomOf(s)
        after == rooms'[socket[s].code]
        winners == Nearest(before.game.guesses, before.game.targetValue)
    IN /\ Elems(after.game.lastWinners) = winners
       /\ Len(after.game.lastWinners) = Cardinality(winners)
       /\ \A sid \in Sockets :
            ScoreOf(after.scores, sid)
                = ScoreOf(before.scores, sid) + (IF sid \in winners THEN 1 ELSE 0)
       /\ DOMAIN after.scores = (DOMAIN before.scores) \cup winners
       /\ after.game.phase = "revealed" /\ after.game.revealed
       /\ (Keys(before.game.guesses) = {}) =>
            (after.game.lastWinners = << >> /\ after.scores = before.scores)
C2_RevealScoresNearest ==
    [][UNCHANGED vars \/ \A s \in Sockets :
          (/\ InRoom(s) /\ RoomOf(s).hostId = s /\ RoomOf(s).game.phase = "guessing"
           /\ GameRevealAndScore(s))
          => C2_RevealStep(s)]_vars

\* C2 witness: a revealed round in which two connections with different
\* guesses tie and both hold a point.
C2_Witness ==
    \E c \in RoomCodes : \E a, b \in Elems(rooms[c].game.lastWinners) :
        /\ rooms[c].game.phase = "revealed"
        /\ Get(rooms[c].game.guesses, a) # Get(rooms[c].game.guesses, b)
        /\ ScoreOf(rooms[c].scores, a) = 1 /\ ScoreOf(rooms[c].scores, b) = 1

\* C3: while revealed = false the game-state snapshot carries targetValue =
\* null and, as answerText, the fixed placeholder during guessing and the
\* empty string otherwise, never the stored answer; a stored target shows in
\* a snapshot only when revealed = true.
C3_HiddenUntilRevealed ==
    \A c \in RoomCodes :
        LET g == rooms[c].game
            snap == emitGameState(c)
        IN /\ ~g.revealed =>
                /\ snap.targetValue = NullNumber
                /\ snap.answerText = (IF g.phase = "guessing" THEN AnswerLocked ELSE << >>)
                /\ g.answerText # << >> => snap.answerText # g.answerText
           /\ snap.targetValue # NullNumber => g.revealed

\* C3 witness: a guessing round with a stored target and answer, not revealed.
C3_Witness ==
    \E c \in RoomCodes :
        /\ rooms[c].game.phase = "guessing" /\ ~rooms[c].game.revealed
        /\ rooms[c].game.targetValue # NullNumber
        /\ rooms[c].game.answerText # << >>
        /\ Keys(rooms[c].game.guesses) # {}

\* C4: a guess sent while the room's phase is not guessing is answered 'Not
\* accepting guesses' and changes nothing (no step that changes the state is
\* the step of such a guess); the guesses map gains or changes an entry only
\* in a step taken from phase guessing.
GuessEntryWritten(c) ==
    \E sid \in Keys(rooms'[c].game.guesses) :
        \/ sid \notin Keys(rooms[c].game.guesses)
        \/ Get(rooms'[c].game.guesses, sid) # Get(rooms[c].game.guesses, sid)
C4_GuessOnlyWhileGuessing ==
    [][\/ UNCHANGED vars
       \/ /\ \A s \in Sockets, raw \in GuessInputs :
               (InRoom(s) /\ RoomOf(s).game.phase # "guessing") =>
                   /\ GameGuessAck(s, raw) = Fail("Not accepting guesses")
                   /\ ~GameGuess(s, raw)
          /\ \A c \in RoomCodes :
               (c \in DOMAIN rooms' /\ GuessEntryWritten(c))
                   => rooms[c].game.phase = "guessing"]_vars

\* C4 witness: a revealed round that holds guesses, with a connected member
\* whose further guess is refused.
C4_Witness ==
    \E s \in Sockets :
        /\ InRoom(s) /\ RoomOf(s).game.phase = "revealed"
        /\ s \in Keys(RoomOf(s).game.guesses)
        /\ GameGuessAck(s, [kind |-> "number", n |-> 1]) = Fail("Not accepting guesses")

\* C5: a set-prompt from a connection that is not currentTurnId, or sent
\* while isAcceptingPrompt is false, is answered 'Not your turn', starts no
\* answer lookup and changes no field of the room (no step that changes the
\* state is the step of such a set-prompt).
C5_Refused(s) ==
    InRoom(s) /\ (RoomOf(s).game.currentTurnId # s \/ ~RoomOf(s).game.isAcceptingPrompt)
C5_PromptOnlyFromChooser ==
    [][\/ UNCHANGED vars
       \/ \A s \in Sockets, text \in PromptTexts :
            C5_Refused(s) =>
                /\ GameSetPromptAck(s, text) = Fail("Not your turn")
                /\ ~GameSetPrompt(s, text)]_vars

\* C5 witness: the chooser is still connected and current while the lookup
\* for the prompt is in flight, so a second prompt from it is refused.
C5_Witness ==
    \E s \in Sockets :
        /\ InRoom(s) /\ RoomOf(s).game.currentTurnId = s
        /\ ~RoomOf(s).game.isAcceptingPrompt
        /\ RoomOf(s).game.prompt # << >>
        /\ \E call \in BagToSet(pending) : call.sid = s /\ call.live

\* C6: when the current host disconnects, hostId becomes the earliest-joined
\* player still in the roster, or null if nobody is left; when another
\* member disconnects, hostId does not change.
EarliestAfter(room, s) ==
    LET stay == {i \in 1..Len(room.players) : room.players[i].key # s}
    IN IF stay = {} THEN Null ELSE room.players[SetMin(stay)].key
C6_HostFailover ==
    [][UNCHANGED vars \/ \A s \in Sockets :
          (InRoom(s) /\ Disconnect(s)) =>
              rooms'[socket[s].code].hostId =
                  (IF RoomOf(s).hostId = s THEN EarliestAfter(RoomOf(s), s)
                   ELSE RoomOf(s).hostId)]_vars

\* C6 witness: the latest joiner, who had taken the host role, is gone and
\* the earliest of the two members left is host.
C6_Witness ==
    \E c \in RoomCodes :
        /\ Len(rooms[c].players) = 2
        /\ rooms[c].hostId = rooms[c].players[1].key
        /\ \E s \in Sockets :
             /\ ~Connected(s) /\ socket[s].code = c /\ s \notin Roster(c)
             /\ \A p \in Roster(c) : Rank(p) < Rank(s)

\* C7: a room leaves the registry only when its cleanup timer fires while
\* its roster is empty, never in the step in which the last player
\* disconnects; a join while the timer is pending cancels it, keeps the room
\* and keeps its scores as they were before the disconnect.
C7_DeferredCleanup ==
    [][UNCHANGED vars \/ \A c \in RoomCodes :
            /\ rooms[c].cleanupTimer = "armed" => Roster(c) = {}
            /\ c \notin DOMAIN rooms' =>
                 /\ rooms[c].cleanupTimer = "armed" /\ Roster(c) = {}
                 /\ socket' = socket
            /\ (c \in DOMAIN rooms' /\ rooms'[c].cleanupTimer = "armed") =>
                 /\ Keys(rooms'[c].players) = {}
                 /\ rooms'[c].scores = rooms[c].scores
            /\ (c \in DOMAIN rooms' /\ rooms[c].cleanupTimer = "armed"
                    /\ Keys(rooms'[c].players) # {}) =>
                 /\ rooms'[c].cleanupTimer = "none"
                 /\ rooms'[c].scores = rooms[c].scores]_vars

\* C7 witness: everybody who played has left, the scoreboard is not empty,
\* and a newcomer has joined the room, whose timer is no longer pending.
C7_Witness ==
    \E c \in RoomCodes :
        /\ DOMAIN rooms[c].scores # {}
        /\ \A s \in DOMAIN rooms[c].scores : ~Connected(s)
        /\ \A s \in Keys(rooms[c].game.guesses) : ~Connected(s)
        /\ rooms[c].game.phase = "revealed"
        /\ rooms[c].hostId \notin Keys(rooms[c].game.guesses)
        /\ Len(rooms[c].players) = 1
        /\ rooms[c].cleanupTimer = "none"

\* C8: while a room exists its scores change only in a reveal by the host:
\* start-game, start-round, next-turn, set-prompt (and the arrival of its
\* answer), guess, join and disconnect leave every entry as it is, and no
\* entry is ever removed or lowered.
C8_OtherEvent ==
    \/ \E s \in Sockets : RoomStart(s) \/ GameStartRound(s) \/ GameNextTurn(s) \/ Disconnect(s)
    \/ \E s \in Sockets, text \in PromptTexts : GameSetPrompt(s, text)
    \/ \E s \in Sockets, raw \in GuessInputs : GameGuess(s, raw)
    \/ \E s \in Sockets, in \in JoinInputs : RoomJoin(s, in.code, in.name, in.host)
    \/ \E call \in BagToSet(pending), result \in fetchNumericAnswer : AnswerArrives(call, result)
C8_ScoresOnlyByReveal ==
    [][UNCHANGED vars \/ \A c \in RoomCodes :
          c \in DOMAIN rooms' =>
              /\ \A sid \in DOMAIN rooms[c].scores :
                    /\ sid \in DOMAIN rooms'[c].scores
                    /\ rooms'[c].scores[sid] >= rooms[c].scores[sid]
              /\ rooms'[c].scores # rooms[c].scores =>
                    /\ rooms[c].game.phase = "guessing"
                    /\ rooms'[c].game.phase = "revealed"
                    /\ \E s \in Sockets : rooms[c].hostId = s /\ GameRevealAndScore(s)
                    /\ ~C8_OtherEvent]_vars

\* C8 witness: back in the lobby (fresh idle round) the scoreboard still
\* holds the point of a player who has left.
C8_Witness ==
    \E c \in RoomCodes :
        /\ rooms[c].game = newGameState
        /\ Roster(c) # {}
        /\ \E s \in DOMAIN rooms[c].scores : ~Connected(s) /\ rooms[c].scores[s] = 1

\* C9: start-game, start-round, next-turn and reveal-and-score sent by a
\* connection that is not the room's hostId change nothing (roster, hostId,
\* scores, round state: no step that changes the state is the step of such
\* an event) and report nothing to the caller.
C9_HostEvent(s) ==
    RoomStart(s) \/ GameStartRound(s) \/ GameNextTurn(s) \/ GameRevealAndScore(s)
C9_NonHostIsNoOp ==
    [][\/ UNCHANGED vars
       \/ \A s \in Sockets :
            (InRoom(s) /\ RoomOf(s).hostId # s) =>
                /\ HostEventAck(s) = NoAck
                /\ ~C9_HostEvent(s)]_vars

\* C9 witness: a connected member who is not host, in a guessing round that
\* holds a guess and could be revealed.
C9_Witness ==
    \E s \in Sockets :
        /\ InRoom(s) /\ s \in Roster(socket[s].code) /\ RoomOf(s).hostId # s
        /\ RoomOf(s).game.phase = "guessing"
        /\ Keys(RoomOf(s).game.guesses) # {}

\* C10: an answer that arrives for a prompt whose submitter is no longer the
\* round's chooser (the chooser disconnected, or the host started another
\* turn with another chooser) leaves phase, targetValue, answerText, guesses
\* and revealed of the room's current round as they are.
RoundFields(g) == <<g.phase, g.targetValue, g.answerText, g.guesses, g.revealed>>
C10_StaleAnswerIgnored ==
    [][\A call \in BagToSet(pending), result \in fetchNumericAnswer :
          (/\ call.code \in RoomCodes
           /\ Room(call.code).game.currentTurnId # call.sid
           /\ AnswerArrives(call, result))
          => /\ call.code \in DOMAIN rooms'
             /\ RoundFields(rooms'[call.code].game) = RoundFields(Room(call.code).game)]_vars

\* C11: a join whose code names no room is answered 'Room not found', one
\* whose name is blank after trimming 'Name required', and neither changes
\* any room (roster, hostId, cleanup timer); a successful join puts the
\* caller on the roster and makes the caller host exactly when the room had
\* no host or the caller asked for it, leaving hostId alone otherwise.
C11_CodeKnown(codeIn) == ToUpperCase(codeIn) \in RoomCodes
C11_Blank(nameIn) == \A i \in 1..Len(nameIn) : nameIn[i] = " "
C11_JoinOutcome ==
    [][\/ UNCHANGED vars
       \/ \A in \in JoinInputs :
            LET c == ToUpperCase(in.code)
                known == C11_CodeKnown(in.code)
                blank == C11_Blank(in.name)
            IN  \A s \in Sockets :
                  /\ ~known =>
                       /\ RoomJoinAck(s, in.code, in.name, in.host) = Fail("Room not found")
                       /\ ~RoomJoin(s, in.code, in.name, in.host)
                  /\ (known /\ blank) =>
                       /\ RoomJoinAck(s, in.code, in.name, in.host) = Fail("Name required")
                       /\ ~RoomJoin(s, in.code, in.name, in.host)
                  /\ (/\ known
                      /\ ~blank
                      /\ socket'[s].code = c
                      /\ RoomJoin(s, in.code, in.name, in.host)) =>
                       /\ RoomJoinAck(s, in.code, in.name, in.host).ok
                       /\ c \in DOMAIN rooms'
                       /\ Keys(rooms'[c].players) = Roster(c) \cup {s}
                       /\ rooms'[c].hostId =
                              IF rooms[c].hostId = Null \/ in.host
                              THEN s ELSE rooms[c].hostId]_vars
C11_Witness ==
    \E c \in RoomCodes :
        /\ Len(rooms[c].players) >= 2
        /\ rooms[c].hostId = rooms[c].players[1].key
        /\ rooms[c].cleanupTimer = "none"
        /\ rooms[c].game.phase = "idle"

\* C12 (as stated): while a lookup started by an accepted game:setPrompt is
\* in flight the room's isAcceptingPrompt is false, a further game:setPrompt
\* of the submitter is rejected, and a room never has two lookups in flight.
Outstanding(c, calls) ==
    BagCardinality([x \in {y \in BagToSet(calls) : y.code = c} |-> CopiesIn(x, calls)])
C12_OneLookupOutstanding ==
    \A c \in RoomCodes :
        /\ Outstanding(c, pending) <= 1
        /\ \A call \in BagToSet(pending) :
               (call.code = c /\ call.live) =>
                   /\ ~rooms[c].game.isAcceptingPrompt
                   /\ \A text \in PromptTexts :
                          (Connected(call.sid) /\ socket[call.sid].code = c) =>
                              GameSetPromptAck(call.sid, text) = Fail("Not your turn")

\* C12 (amended): an accepted game:setPrompt turns isAcceptingPrompt off in
\* the same step that starts its lookup; once off, every game:setPrompt of
\* the room is answered 'Not your turn' and the flag is turned on again only
\* by game:startRound or game:nextTurn of the host, never by the lookup's
\* return, a guess or a disconnect.  A room has a second lookup in flight
\* only after the host has started another turn in between.
C12_ReopenedOnlyByHost ==
    [][\/ UNCHANGED vars
       \/ \A c \in RoomCodes :
            /\ Outstanding(c, pending') > Outstanding(c, pending) =>
                   /\ rooms[c].game.isAcceptingPrompt
                   /\ c \in DOMAIN rooms'
                   /\ ~rooms'[c].game.isAcceptingPrompt
            /\ ~rooms[c].game.isAcceptingPrompt =>
                   /\ \A s \in Sockets, text \in PromptTexts :
                          (Connected(s) /\ socket[s].code = c) =>
                              GameSetPromptAck(s, text) = Fail("Not your turn")
                   /\ (c \in DOMAIN rooms' /\ rooms'[c].game.isAcceptingPrompt) =>
                          \E s \in Sockets :
                              /\ hostOnly(rooms[c], s)
                              /\ socket[s].code = c
                              /\ GameStartRound(s) \/ GameNextTurn(s)]_vars
C12_Witness ==
    \E c \in RoomCodes :
        /\ Outstanding(c, pending) = 2
        /\ ~rooms[c].game.isAcceptingPrompt
        /\ rooms[c].game.phase = "choosing"
        /\ rooms[c].game.prompt # << >>

\* C13: when the lookup started by a game:setPrompt ends without a usable
\* number (null) or fails (throw), the step that handles the response leaves
\* the room's round in phase choosing with isAcceptingPrompt false, and the
\* submitter's acknowledgement reports the failure.
C13_FailureClosesChoosing ==
    [][\A call \in BagToSet(pending), result \in fetchNumericAnswer :
          (/\ result.kind \in {"null", "throw"}
           /\ call.live
           /\ AnswerArrives(call, result))
          => /\ call.code \in DOMAIN rooms'
             /\ rooms'[call.code].game.phase = "choosing"
             /\ ~rooms'[call.code].game.isAcceptingPrompt
             /\ ~AnswerAck(result).ok]_vars

\* C14: game:startRound and game:nextTurn sent by the host, in whatever
\* phase, leave the round in phase choosing with currentTurnId a member of
\* the roster (null only if the roster is empty), isAcceptingPrompt true
\* exactly when currentTurnId is not null, and prompt, targetValue,
\* answerText, guesses, revealed and lastWinners cleared.
C14_Cleared(g) ==
    /\ g.prompt = << >>
    /\ g.targetValue = NullNumber
    /\ g.answerText = << >>
    /\ Keys(g.guesses) = {}
    /\ ~g.revealed
    /\ g.lastWinners = << >>
C14_HostStartsTurn ==
    [][\/ UNCHANGED vars
       \/ \A s \in Sockets :
            (/\ InRoom(s)
             /\ rooms[socket[s].code].hostId = s
             /\ GameStartRound(s) \/ GameNextTurn(s))
            => LET c == socket[s].code
                   g == rooms'[c].game
               IN /\ c \in DOMAIN rooms'
                  /\ g.phase = "choosing"
                  /\ g.currentTurnId \in Roster(c) \cup {Null}
                  /\ g.currentTurnId = Null => Roster(c) = {}
                  /\ g.isAcceptingPrompt <=> g.currentTurnId # Null
                  /\ C14_Cleared(g)
                  /\ Keys(rooms'[c].players) = Roster(c)]_vars
C14_Witness ==
    \E c \in RoomCodes :
        /\ rooms[c].game.phase = "choosing"
        /\ rooms[c].game.isAcceptingPrompt
        /\ rooms[c].game.currentTurnId \in Roster(c) \ {rooms[c].hostId}
        /\ C14_Cleared(rooms[c].game)
        /\ \E s \in Roster(c) : ScoreOf(rooms[c].scores, s) = 1

\* C15: when the connection that is currentTurnId disconnects, the round's
\* currentTurnId becomes null and isAcceptingPrompt false while every other
\* round field and the scores stay as they were; when any other member
\* disconnects no field of the round changes.
C15_ChooserLeaves ==
    [][\/ UNCHANGED vars
       \/ \A s \in Sockets :
            (InRoom(s) /\ s \in Roster(socket[s].code) /\ Disconnect(s))
            => LET c == socket[s].code
                   g == rooms[c].game
               IN /\ c \in DOMAIN rooms'
                  /\ rooms'[c].scores = rooms[c].scores
                  /\ rooms'[c].game =
                         IF g.currentTurnId = s
                         THEN [g EXCEPT !.currentTurnId = Null,
                                        !.isAcceptingPrompt = FALSE]
                         ELSE g]_vars
C15_Witness ==
    \E c \in RoomCodes :
        /\ rooms[c].game.phase = "guessing"
        /\ rooms[c].game.currentTurnId = Null
        /\ ~rooms[c].game.isAcceptingPrompt
        /\ rooms[c].game.targetValue # NullNumber
        /\ Roster(c) # {}
        /\ \E s \in Keys(rooms[c].game.guesses) : ~Connected(s)

\* C16: in every reachable state of every room, currentTurnId is null or the
\* id of a connection on the room's roster.
C16_ChooserInRoster ==
    \A c \in RoomCodes :
        rooms[c].game.currentTurnId \in Roster(c) \cup {Null}
C16_Witness ==
    \E c \in RoomCodes :
        /\ rooms[c].game.currentTurnId \in Roster(c)
        /\ rooms[c].game.currentTurnId # rooms[c].hostId
        /\ \E s \in Sockets : ~Connected(s) /\ socket[s].code = c
        /\ BagCardinality(pending) > 0

\* C17: the phase of a room's round changes only along these edges: to
\* choosing by game:startRound or game:nextTurn of the host; from choosing
\* to guessing by a lookup that returns a number for the prompt of the
\* current chooser; from guessing to revealed by game:revealAndScore of the
\* host; to idle by room:start of the host.
C17_IsHost(s, c) == Connected(s) /\ socket[s].code = c /\ rooms[c].hostId = s
C17_PhaseEdges ==
    [][\A c \in RoomCodes :
          (c \in DOMAIN rooms' /\ rooms'[c].game.phase # rooms[c].game.phase)
          => LET g == rooms[c].game
                 p == g.phase
                 q == rooms'[c].game.phase
             IN \/ /\ q = "choosing"
                   /\ \E s \in Sockets :
                          C17_IsHost(s, c) /\ (GameStartRound(s) \/ GameNextTurn(s))
                \/ /\ p = "choosing"
                   /\ q = "guessing"
                   /\ \E call \in BagToSet(pending), result \in fetchNumericAnswer :
                          /\ result.kind = "value"
                          /\ call.code = c
                          /\ call.sid = g.currentTurnId
                          /\ call.prompt = g.prompt
                          /\ AnswerArrives(call, result)
                \/ /\ p = "guessing"
                   /\ q = "revealed"
                   /\ \E s \in Sockets : C17_IsHost(s, c) /\ GameRevealAndScore(s)
                \/ /\ q = "idle"
                   /\ \E s \in Sockets : C17_IsHost(s, c) /\ RoomStart(s)]_vars

\* C18: in every reachable state of every room, revealed is true exactly
\* when the phase is revealed, and lastWinners is non-empty only when the
\* phase is revealed.
C18_RevealedIffPhase ==
    \A c \in RoomCodes :
        /\ rooms[c].game.revealed <=> rooms[c].game.phase = "revealed"
        /\ rooms[c].game.lastWinners # << >> => rooms[c].game.phase = "revealed"

\* C19: in every reachable state of every room, isAcceptingPrompt true
\* implies that the phase is choosing and currentTurnId is not null.
C19_AcceptingOnlyWhileChoosing ==
    \A c \in RoomCodes :
        rooms[c].game.isAcceptingPrompt =>
            /\ rooms[c].game.phase = "choosing"
            /\ rooms[c].game.currentTurnId # Null

\* C20: while a round stays in phase guessing, a step that is not
\* game:revealAndScore, game:startRound, game:nextTurn or room:start of the
\* host leaves targetValue as it is and keeps every recorded guess (a later
\* guess of the same connection may replace its value).
C20_HostEnds(c) ==
    \E s \in Sockets :
        /\ Connected(s) /\ socket[s].code = c /\ rooms[c].hostId = s
        /\ \/ GameRevealAndScore(s)
           \/ GameStartRound(s)
           \/ GameNextTurn(s)
           \/ RoomStart(s)
C20_GuessesKept ==
    [][\A c \in RoomCodes :
          (/\ rooms[c].game.phase = "guessing"
           /\ c \in DOMAIN rooms'
           /\ ~C20_HostEnds(c))
          => /\ rooms'[c].game.targetValue = rooms[c].game.targetValue
             /\ Keys(rooms[c].game.guesses) \subseteq Keys(rooms'[c].game.guesses)]_vars

====
